---------------------------- MODULE Spec2Model ----------------------------
(***************************************************************************)
(* Model of the Access Engine backend (backend/services/graph.py and the   *)
(* routers that call it): the nodes and celebrities tables, the scoring    *)
(* engine, the path selector, the graph projector and the search handler.  *)
(*                                                                         *)
(* Text is a sequence of one-character strings, so that lower() and the    *)
(* substring test of the path selector are computed, not assumed.          *)
(* Python floats are IEEE-754 binary64 values m * 2^e whose significand m   *)
(* is a natural number kept as a little-endian sequence of 15-bit limbs,   *)
(* so that the true division and the multiplication by 0.6 of the scoring  *)
(* engine round as they do in CPython.                                     *)
(***************************************************************************)
EXTENDS Integers, Sequences, FiniteSets, TLC

(***************************************************************************)
(* Bounds of the model.                                                    *)
(***************************************************************************)
MaxNodes == 2

(***************************************************************************)
(* Natural numbers beyond the machine integers: little-endian sequences of *)
(* limbs in base 2^15, without high zero limbs (zero is the empty          *)
(* sequence).                                                              *)
(***************************************************************************)
LimbBits == 15

LimbBase == 32768

RECURSIVE NatToBig(_)
NatToBig(k) ==
    IF k = 0 THEN <<>> ELSE <<k % LimbBase>> \o NatToBig(k \div LimbBase)

RECURSIVE BigToNat(_)
BigToNat(a) ==
    IF a = <<>> THEN 0 ELSE a[1] + LimbBase * BigToNat(Tail(a))

Limb(a, i) == IF i >= 1 /\ i <= Len(a) THEN a[i] ELSE 0

RECURSIVE StripHigh(_)
StripHigh(a) ==
    IF a = <<>> THEN <<>>
    ELSE IF a[Len(a)] # 0 THEN a
    ELSE StripHigh(SubSeq(a, 1, Len(a) - 1))

RECURSIVE AddFrom(_, _, _, _)
AddFrom(a, b, i, carry) ==
    IF i > Len(a) /\ i > Len(b)
    THEN (IF carry = 0 THEN <<>> ELSE <<carry>>)
    ELSE LET t == Limb(a, i) + Limb(b, i) + carry
         IN  <<t % LimbBase>> \o AddFrom(a, b, i + 1, t \div LimbBase)

BigAdd(a, b) == AddFrom(a, b, 1, 0)

\* a * d for one limb d
RECURSIVE MulLimbFrom(_, _, _, _)
MulLimbFrom(a, d, i, carry) ==
    IF i > Len(a)
    THEN (IF carry = 0 THEN <<>> ELSE <<carry>>)
    ELSE LET t == a[i] * d + carry
         IN  <<t % LimbBase>> \o MulLimbFrom(a, d, i + 1, t \div LimbBase)

MulLimb(a, d) == IF d = 0 THEN <<>> ELSE MulLimbFrom(a, d, 1, 0)

RECURSIVE MulFrom(_, _, _)
MulFrom(a, b, j) ==
    IF j > Len(b) THEN <<>>
    ELSE BigAdd(MulLimb(a, b[j]), <<0>> \o MulFrom(a, b, j + 1))

BigMul(a, b) == StripHigh(MulFrom(a, b, 1))

RECURSIVE SmallBitLen(_)
SmallBitLen(k) == IF k = 0 THEN 0 ELSE 1 + SmallBitLen(k \div 2)

BitLen(a) ==
    IF a = <<>> THEN 0
    ELSE LimbBits * (Len(a) - 1) + SmallBitLen(a[Len(a)])

\* bit number i of a, the lowest bit being number 0
BitAt(a, i) == (Limb(a, (i \div LimbBits) + 1) \div (2 ^ (i % LimbBits))) % 2

\* a % 2^s # 0
LowBitsSet(a, s) ==
    \/ \E i \in 1..(s \div LimbBits) : Limb(a, i) # 0
    \/ Limb(a, (s \div LimbBits) + 1) % (2 ^ (s % LimbBits)) # 0

\* a * 2^s
ShiftLeft(a, s) ==
    IF a = <<>> THEN <<>>
    ELSE [i \in 1..(s \div LimbBits) |-> 0] \o MulLimb(a, 2 ^ (s % LimbBits))

\* a \div 2^s
ShiftRight(a, s) ==
    LET q == s \div LimbBits
        r == s % LimbBits
    IN  StripHigh([i \in 1..(Len(a) - q) |->
            (Limb(a, i + q) \div (2 ^ r))
          + (Limb(a, i + q + 1) % (2 ^ r)) * (2 ^ (LimbBits - r))])

\* <<a \div n, a % n>> for a machine integer n, by long division from the
\* high limb down
RECURSIVE DivSmallFrom(_, _, _, _)
DivSmallFrom(a, n, i, r) ==
    IF i = 0 THEN <<<<>>, r>>
    ELSE LET t    == r * LimbBase + a[i]
             rest == DivSmallFrom(a, n, i - 1, t % n)
         IN  <<rest[1] \o <<t \div n>>, rest[2]>>

DivSmall(a, n) ==
    LET qr == DivSmallFrom(a, n, Len(a), 0)
    IN  <<StripHigh(qr[1]), qr[2]>>

(***************************************************************************)
(* binary64: 53 significant bits, round to nearest, ties to even.  A float *)
(* is [m, e] with value m * 2^e.  The values of the scoring engine lie in   *)
(* [0, 2^10), far from overflow and from the subnormals, and are never     *)
(* negative.                                                               *)
(***************************************************************************)
Precision == 53

FloatZero == [m |-> <<>>, e |-> 0]

RoundToDouble(m, sticky, e) ==
    LET L == BitLen(m)
    IN  IF L <= Precision THEN [m |-> m, e |-> e]
        ELSE LET s  == L - Precision
                 q  == ShiftRight(m, s)
                 g  == BitAt(m, s - 1)
                 st == sticky \/ LowBitsSet(m, s - 1)
                 up == g = 1 /\ (st \/ BitAt(q, 0) = 1)
             IN  [m |-> IF up THEN BigAdd(q, <<1>>) ELSE q, e |-> e + s]

\* int -> float, exact for the integers of the model
FromInt(k) == [m |-> NatToBig(k), e |-> 0]

\* Python's int / int: the correctly rounded quotient
TrueDiv(S, n) ==
    IF S = 0 THEN FloatZero
    ELSE LET k  == Precision + 2 + SmallBitLen(n)
             qr == DivSmall(ShiftLeft(NatToBig(S), k), n)
         IN  RoundToDouble(qr[1], qr[2] # 0, -k)

FloatMul(a, b) ==
    IF a.m = <<>> \/ b.m = <<>> THEN FloatZero
    ELSE RoundToDouble(BigMul(a.m, b.m), FALSE, a.e + b.e)

FloatAdd(a, b) ==
    IF a.m = <<>> THEN b
    ELSE IF b.m = <<>> THEN a
    ELSE LET e == IF a.e < b.e THEN a.e ELSE b.e
         IN  RoundToDouble(BigAdd(ShiftLeft(a.m, a.e - e),
                                  ShiftLeft(b.m, b.e - e)), FALSE, e)

\* Python's int(float) for a non-negative float: truncation
FloatToInt(a) ==
    IF a.e >= 0 THEN BigToNat(ShiftLeft(a.m, a.e))
    ELSE BigToNat(ShiftRight(a.m, -a.e))

\* the literal 0.6: the double nearest to 3/5
Point6 == TrueDiv(3, 5)


(***************************************************************************)
(* Text: a Python str is a sequence of one-character strings.              *)
(***************************************************************************)
UpperToLower ==
    [c \in {"A","B","C","D","E","F","G","H","I","J","K","L","M",
            "N","O","P","Q","R","S","T","U","V","W","X","Y","Z"} |->
        CASE c = "A" -> "a" [] c = "B" -> "b" [] c = "C" -> "c"
          [] c = "D" -> "d" [] c = "E" -> "e" [] c = "F" -> "f"
          [] c = "G" -> "g" [] c = "H" -> "h" [] c = "I" -> "i"
          [] c = "J" -> "j" [] c = "K" -> "k" [] c = "L" -> "l"
          [] c = "M" -> "m" [] c = "N" -> "n" [] c = "O" -> "o"
          [] c = "P" -> "p" [] c = "Q" -> "q" [] c = "R" -> "r"
          [] c = "S" -> "s" [] c = "T" -> "t" [] c = "U" -> "u"
          [] c = "V" -> "v" [] c = "W" -> "w" [] c = "X" -> "x"
          [] c = "Y" -> "y" [] c = "Z" -> "z"]

\* a list comprehension: the tuple of the values of f on 1..n
List(f) == <<>> \o f

\* str.lower()
Lower(s) ==
    List([i \in 1..Len(s) |->
        IF s[i] \in DOMAIN UpperToLower THEN UpperToLower[s[i]] ELSE s[i]])

\* Python's  p in t  for two strings
In(p, t) ==
    \E i \in 0..(Len(t) - Len(p)) : SubSeq(t, i + 1, i + Len(p)) = p

Space == <<" ">>

Manager == <<"m","a","n","a","g","e","r">>

Investor == <<"i","n","v","e","s","t","o","r">>

Collaborator == <<"c","o","l","l","a","b","o","r","a","t","o","r">>

Media == <<"m","e","d","i","a">>

Colleague == <<"c","o","l","l","e","a","g","u","e">>

Partner == <<"p","a","r","t","n","e","r">>

Friend == <<"f","r","i","e","n","d">>

TalentManager == <<"T","a","l","e","n","t"," ","m","a","n","a","g","e","r">>

TechInvestor == <<"T","e","c","h"," ","i","n","v","e","s","t","o","r">>

Reporter == <<"R","e","p","o","r","t","e","r">>

MetAtYC == <<"M","e","t"," ","a","t"," ","Y","C">>

OldFriend == <<"O","l","d"," ","f","r","i","e","n","d">>

Tech == <<"t","e","c","h">>

TechUpper == <<"T","E","C","H">>

Yc == <<"y","c">>

Stripe == <<"S","t","r","i","p","e">>

(***************************************************************************)
(* The state: the tables of the store, the requests in flight and the last *)
(* response of a direct call.                                              *)
(***************************************************************************)
VARIABLES
    nodes,          \* table "nodes": its rows, in insertion order
    celebrities,    \* table "celebrities": its rows, in insertion order
    searches,       \* POST /celebrity/search requests, by request number
    response,       \* the last response of a call that is not a search
    inserted,       \* number of rows inserted into "nodes" so far
    outreach,       \* table "outreach": its rows, in insertion order
    calls           \* the other requests in flight, by handler: the local
                    \* variables of the request between two store calls

vars ==
    <<nodes, celebrities, searches, response, inserted, outreach, calls>>

(***************************************************************************)
(* list.sort / sorted: the stable sort of items by ascending key, keys[i]  *)
(* being the key of items[i], a tuple of integers compared as Python       *)
(* compares tuples.  A stable sort puts item i after the items of smaller  *)
(* key and after the earlier items of equal key.                           *)
(***************************************************************************)
KeyLess(a, b) ==
    \E i \in 1..Len(a) : a[i] < b[i] /\ \A j \in 1..(i - 1) : a[j] = b[j]

\* SortPosition of a sort that puts the later of two equal keys first
SortPosition_unstable(keys, i) ==
      Cardinality({j \in DOMAIN keys : KeyLess(keys[j], keys[i])})
    + Cardinality({j \in (i + 1)..Len(keys) : keys[j] = keys[i]})
    + 1

SortPosition(keys, i) ==
      Cardinality({j \in DOMAIN keys : KeyLess(keys[j], keys[i])})
    + Cardinality({j \in 1..(i - 1) : keys[j] = keys[i]})
    + 1

sorted(items, keys) ==
    LET position == List([i \in DOMAIN items |-> SortPosition(keys, i)])
    IN  List([p \in 1..Len(items) |->
                 items[CHOOSE i \in DOMAIN items : position[i] = p]])

\* [x for x in s if ...]: the elements of s at the indices of keep, in order
Filter(s, keep) ==
    List([k \in 1..Cardinality(keep) |->
            s[CHOOSE i \in keep : Cardinality({j \in keep : j <= i}) = k]])

RECURSIVE SumOf(_)
SumOf(s) == IF s = <<>> THEN 0 ELSE Head(s) + SumOf(Tail(s))

Min(a, b) == IF a < b THEN a ELSE b

Max(a, b) == IF a > b THEN a ELSE b

(***************************************************************************)
(* The store queries of the engine.                                        *)
(***************************************************************************)
\* db.table("nodes").select(...).eq("celebrity_id", celebrity_id)
NodesOf(table, celebrity_id) ==
    Filter(table, {i \in DOMAIN table : table[i].celebrity_id = celebrity_id})

\* ... .order("warm_score", desc=True); rows of equal warm_score are
\* returned in insertion order
OrderByWarmDesc(rows) ==
    sorted(rows, List([i \in DOMAIN rows |-> <<-rows[i].warm_score>>]))

\* .select("warm_score, hop_distance, relationship_type")
ScoreColumns(rows) ==
    List([i \in DOMAIN rows |->
        [warm_score        |-> rows[i].warm_score,
         hop_distance      |-> rows[i].hop_distance,
         relationship_type |-> rows[i].relationship_type]])


(***************************************************************************)
(* Scoring engine: calculate_access_score.                                 *)
(***************************************************************************)
\* AccessScoreOf without the final clamp
AccessScoreOf_unclamped(rows) ==
    IF rows = <<>> THEN 30
    ELSE LET avg_warm ==
                 TrueDiv(SumOf(List([i \in DOMAIN rows |->
                                         rows[i].warm_score])),
                         Len(rows))
             direct_nodes  == Filter(rows,
                     {i \in DOMAIN rows :
                         rows[i].hop_distance = 1})
             direct_bonus  == Min(Len(direct_nodes) * 5, 20)
             rel_types     ==
                 {rows[i].relationship_type : i \in DOMAIN rows}
             variety_bonus == Cardinality(rel_types) * 3
         IN  FloatToInt(FloatAdd(FloatAdd(FloatMul(avg_warm, Point6),
                                          FromInt(direct_bonus)),
                                 FromInt(variety_bonus)))

\* AccessScoreOf with the variety bonus taken over the wrong column
AccessScoreOf_varietyOfWarm(rows) ==
    IF rows = <<>> THEN 30
    ELSE LET avg_warm ==
                 TrueDiv(SumOf(List([i \in DOMAIN rows |->
                                         rows[i].warm_score])),
                         Len(rows))
             direct_nodes  == Filter(rows,
                     {i \in DOMAIN rows :
                         rows[i].hop_distance = 1})
             direct_bonus  == Min(Len(direct_nodes) * 5, 20)
             rel_types     == {rows[i].warm_score : i \in DOMAIN rows}
             variety_bonus == Cardinality(rel_types) * 3
             score ==
                 FloatToInt(FloatAdd(FloatAdd(FloatMul(avg_warm, Point6),
                                              FromInt(direct_bonus)),
                                     FromInt(variety_bonus)))
         IN  Min(Max(score, 10), 99)

\* the body of calculate_access_score once the rows are read
AccessScoreOf(rows) ==
    IF rows = <<>> THEN 30
    ELSE LET avg_warm ==
                 TrueDiv(SumOf(List([i \in DOMAIN rows |->
                                         rows[i].warm_score])),
                         Len(rows))
             direct_nodes  == Filter(rows,
                     {i \in DOMAIN rows :
                         rows[i].hop_distance = 1})
             direct_bonus  == Min(Len(direct_nodes) * 5, 20)
             rel_types     ==
                 {rows[i].relationship_type : i \in DOMAIN rows}
             variety_bonus == Cardinality(rel_types) * 3
             score ==
                 FloatToInt(FloatAdd(FloatAdd(FloatMul(avg_warm, Point6),
                                              FromInt(direct_bonus)),
                                     FromInt(variety_bonus)))
         IN  Min(Max(score, 10), 99)

ScoreRows(table, celebrity_id) == ScoreColumns(NodesOf(table, celebrity_id))

calculate_access_score(table, celebrity_id) ==
    AccessScoreOf(ScoreRows(table, celebrity_id))

(***************************************************************************)
(* Path selector: find_best_path.  A user_context is a dict, modelled as a *)
(* function on its keys; None and {} are the function of empty domain.     *)
(***************************************************************************)
NoContext == <<>>

Truthy(d) == DOMAIN d # {}

Get(d, k, default) == IF k \in DOMAIN d THEN d[k] ELSE default

\* FinalScore counting a connection that is listed twice once
FinalScore_distinctConnections(node, user_context) ==
    IF Truthy(user_context)
    THEN LET user_industry == Lower(Get(user_context, "industry", <<>>))
             connections   == Get(user_context, "connections", <<>>)
             user_connections ==
                 List([i \in DOMAIN connections |-> Lower(connections[i])])
             node_text ==
                 Lower(node.role \o Space \o node.why_warm \o Space
                       \o node.relationship_type)
         IN    node.warm_score
             + (IF user_industry # <<>> /\ In(user_industry, node_text)
                THEN 15 ELSE 0)
             + 10 * Cardinality({user_connections[i] :
                                    i \in {j \in DOMAIN user_connections :
                                        In(user_connections[j], node_text)}})
    ELSE node.warm_score

\* the score of one node for the ranking
FinalScore(node, user_context) ==
    IF Truthy(user_context)
    THEN LET user_industry == Lower(Get(user_context, "industry", <<>>))
             connections   == Get(user_context, "connections", <<>>)
             user_connections ==
                 List([i \in DOMAIN connections |-> Lower(connections[i])])
             node_text ==
                 Lower(node.role \o Space \o node.why_warm \o Space
                       \o node.relationship_type)
         IN    node.warm_score
             + (IF user_industry # <<>> /\ In(user_industry, node_text)
                THEN 15 ELSE 0)
             + 10 * Cardinality({i \in DOMAIN user_connections :
                                    In(user_connections[i], node_text)})
    ELSE node.warm_score

ScoredNodes(rows, user_context) ==
    List([i \in DOMAIN rows |->
        [node |-> rows[i], final_score |-> FinalScore(rows[i], user_context)]])

\* key=lambda x: (-x["hop_distance"] == 1, -x["final_score"]); the unary
\* minus binds tighter than ==, and False < True
RankKey(x) ==
    <<IF -x.node.hop_distance = 1 THEN 1 ELSE 0, -x.final_score>>

\* scored_nodes after scored_nodes.sort(key=...)
Ranking(rows, user_context) ==
    LET scored_nodes == ScoredNodes(rows, user_context)
    IN  sorted(scored_nodes,
               List([i \in DOMAIN scored_nodes |->
                        RankKey(scored_nodes[i])]))

PathEntry(n) ==
    [person_name       |-> n.person_name,
     role              |-> n.role,
     relationship_type |-> n.relationship_type,
     hop               |-> n.hop_distance,
     warm_score        |-> n.warm_score,
     why_warm          |-> n.why_warm,
     contact_info      |-> n.contact_info,
     node_id           |-> n.id]

NodeSummary(n) ==
    [person_name       |-> n.person_name,
     role              |-> n.role,
     warm_score        |-> n.warm_score,
     hop_distance      |-> n.hop_distance,
     relationship_type |-> n.relationship_type,
     contact_info      |-> n.contact_info,
     node_id           |-> n.id]

\* BuildPath bridging over the last direct node of the ranking
BuildPath_lastDirect(scored_nodes) ==
    LET entry_node   == scored_nodes[1].node
        direct_nodes ==
            Filter(scored_nodes,
                    {i \in DOMAIN scored_nodes :
                        scored_nodes[i].node.hop_distance = 1})
    IN  IF entry_node.hop_distance > 1 /\ direct_nodes # <<>>
        THEN <<PathEntry(entry_node),
               PathEntry(direct_nodes[Len(direct_nodes)].node)>>
        ELSE <<PathEntry(entry_node)>>

\* the entry node, and a bridge when the entry node is not direct
BuildPath(scored_nodes) ==
    LET entry_node   == scored_nodes[1].node
        direct_nodes ==
            Filter(scored_nodes,
                    {i \in DOMAIN scored_nodes :
                        scored_nodes[i].node.hop_distance = 1})
    IN  IF entry_node.hop_distance > 1 /\ direct_nodes # <<>>
        THEN <<PathEntry(entry_node), PathEntry(direct_nodes[1].node)>>
        ELSE <<PathEntry(entry_node)>>

\* MaxHop taking the hop of the last node of the path
MaxHop_ofLast(path) == path[Len(path)].hop

\* max(n["hop"] for n in path)
MaxHop(path) ==
    CHOOSE h \in {path[i].hop : i \in DOMAIN path} :
        \A i \in DOMAIN path : path[i].hop <= h

AllNodesLimit == 8

\* BestPathOf giving up when no node is direct
BestPathOf_directOnly(rows, user_context) ==
    IF rows = <<>> \/ \A i \in DOMAIN rows : rows[i].hop_distance # 1
    THEN [path |-> <<>>, total_hops |-> 0, path_score |-> 0]
    ELSE LET scored_nodes == Ranking(rows, user_context)
             path         == BuildPath(scored_nodes)
         IN  [path        |-> path,
              total_hops  |-> MaxHop(path) + 1,
              path_score  |->
                  FloatToInt(TrueDiv(
                      SumOf(List([i \in DOMAIN path |->
                                     path[i].warm_score])),
                      Len(path))),
              entry_point |-> path[1],
              all_nodes   |->
                  List([i \in 1..Min(AllNodesLimit, Len(scored_nodes)) |->
                           NodeSummary(scored_nodes[i].node)])]

\* BestPathOf averaging the boosted scores of the path nodes
BestPathOf_boostedScore(rows, user_context) ==
    IF rows = <<>>
    THEN [path |-> <<>>, total_hops |-> 0, path_score |-> 0]
    ELSE LET scored_nodes == Ranking(rows, user_context)
             path         == BuildPath(scored_nodes)
             boosted(i)   ==
                 (CHOOSE x \in {scored_nodes[k] : k \in DOMAIN scored_nodes} :
                      x.node.id = path[i].node_id).final_score
         IN  [path        |-> path,
              total_hops  |-> MaxHop(path) + 1,
              path_score  |->
                  FloatToInt(TrueDiv(
                      SumOf(List([i \in DOMAIN path |-> boosted(i)])),
                      Len(path))),
              entry_point |-> path[1],
              all_nodes   |->
                  List([i \in 1..Min(AllNodesLimit, Len(scored_nodes)) |->
                           NodeSummary(scored_nodes[i].node)])]

\* BestPathOf listing all_nodes in the order the rows were read
BestPathOf_unrankedAll(rows, user_context) ==
    IF rows = <<>>
    THEN [path |-> <<>>, total_hops |-> 0, path_score |-> 0]
    ELSE LET scored_nodes == Ranking(rows, user_context)
             path         == BuildPath(scored_nodes)
         IN  [path        |-> path,
              total_hops  |-> MaxHop(path) + 1,
              path_score  |->
                  FloatToInt(TrueDiv(
                      SumOf(List([i \in DOMAIN path |->
                                     path[i].warm_score])),
                      Len(path))),
              entry_point |-> path[1],
              all_nodes   |->
                  List([i \in 1..Min(AllNodesLimit, Len(rows)) |->
                           NodeSummary(rows[i])])]

\* the body of find_best_path once the rows are read
BestPathOf(rows, user_context) ==
    IF rows = <<>>
    THEN [path |-> <<>>, total_hops |-> 0, path_score |-> 0]
    ELSE LET scored_nodes == Ranking(rows, user_context)
             path         == BuildPath(scored_nodes)
         IN  [path        |-> path,
              total_hops  |-> MaxHop(path) + 1,
              path_score  |->
                  FloatToInt(TrueDiv(
                      SumOf(List([i \in DOMAIN path |->
                                     path[i].warm_score])),
                      Len(path))),
              entry_point |-> path[1],
              all_nodes   |->
                  List([i \in 1..Min(AllNodesLimit, Len(scored_nodes)) |->
                           NodeSummary(scored_nodes[i].node)])]

PathRows(table, celebrity_id) == OrderByWarmDesc(NodesOf(table, celebrity_id))

find_best_path(table, celebrity_id, user_context) ==
    BestPathOf(PathRows(table, celebrity_id), user_context)

(***************************************************************************)
(* Graph projector: get_graph_data.                                        *)
(***************************************************************************)
CelebrityNodeId == "celebrity"

\* color_map.get(relationship_type, "#A0A0A0")
ColorOf(relationship_type) ==
    CASE relationship_type = Manager      -> "#FF6B6B"
      [] relationship_type = Investor     -> "#4ECDC4"
      [] relationship_type = Collaborator -> "#45B7D1"
      [] relationship_type = Media        -> "#96CEB4"
      [] relationship_type = Colleague    -> "#FFEAA7"
      [] relationship_type = Partner      -> "#DDA0DD"
      [] OTHER                            -> "#A0A0A0"

\* str(node["id"]) for an integer id
Str(id) == ToString(id)

CelebrityVisNode(celebrity_name) ==
    [id    |-> CelebrityNodeId,
     label |-> celebrity_name,
     group |-> "celebrity",
     size  |-> 40,
     color |-> [background |-> "#FFD700", border |-> "#FFA500"]]

VisNode(node) ==
    [id           |-> Str(node.id),
     label        |-> node.person_name,
     group        |-> node.relationship_type,
     size         |-> 20 + (node.warm_score \div 10),
     color        |-> [background |-> ColorOf(node.relationship_type),
                       border     |-> ColorOf(node.relationship_type)],
     hop_distance |-> node.hop_distance,
     warm_score   |-> node.warm_score,
     why_warm     |-> node.why_warm,
     contact_info |-> node.contact_info]

VisEdge(node) ==
    [from   |-> Str(node.id),
     to     |-> CelebrityNodeId,
     label  |-> node.relationship_type,
     width  |-> IF node.hop_distance = 1 THEN 3 ELSE 1,
     dashes |-> node.hop_distance > 1]

\* GraphOf drawing an edge for the direct nodes only
GraphOf_directEdges(nodes_data, celebrity_name) ==
    [nodes |-> <<CelebrityVisNode(celebrity_name)>>
               \o List([i \in DOMAIN nodes_data |-> VisNode(nodes_data[i])]),
     edges |-> LET direct ==
                       Filter(nodes_data,
                               {i \in DOMAIN nodes_data :
                                   nodes_data[i].hop_distance = 1})
               IN  List([i \in DOMAIN direct |-> VisEdge(direct[i])])]

\* the body of get_graph_data once the rows are read
GraphOf(nodes_data, celebrity_name) ==
    [nodes |-> <<CelebrityVisNode(celebrity_name)>>
               \o List([i \in DOMAIN nodes_data |-> VisNode(nodes_data[i])]),
     edges |-> List([i \in DOMAIN nodes_data |-> VisEdge(nodes_data[i])])]

get_graph_data(table, celebrity_id, celebrity_name) ==
    GraphOf(NodesOf(table, celebrity_id), celebrity_name)

(***************************************************************************)
(* Inputs of the model.                                                    *)
(***************************************************************************)
ElonMusk == <<"E","l","o","n"," ","M","u","s","k">>

TaylorSwift == <<"T","a","y","l","o","r"," ","S","w","i","f","t">>

Elon == <<"e","l","o","n">>

Oprah == <<"O","p","r","a","h">>

DefaultAccessScore == 50

DefaultWarmScore == 70

DefaultHopDistance == 1

\* bodies of POST /celebrity/{celebrity_id}/nodes, with the path parameter
NodeInput(celebrity_id, name, role, type, hop, warm, why) ==
    [celebrity_id      |-> celebrity_id,
     person_name       |-> name,
     role              |-> role,
     relationship_type |-> type,
     hop_distance      |-> hop,
     contact_info      |-> "None",
     warm_score        |-> warm,
     why_warm          |-> why]

NodeInputs ==
    { NodeInput(1, "Ann", TalentManager, Manager, 1, 80, OldFriend),
      NodeInput(1, "Bob", TechInvestor, Investor, 2, 60, MetAtYC),
      NodeInput(1, "Cid", Reporter, Media, 2, 90, OldFriend),
      NodeInput(1, "Dee", Reporter, Friend, DefaultHopDistance,
                DefaultWarmScore, OldFriend),
      NodeInput(1, "Eve", Reporter, Media, 2, 55, OldFriend),
      NodeInput(2, "Fay", TalentManager, Partner, 1, 80, OldFriend) }

\* the row the store makes of an inserted node: ids are serial
NodeRow(id, req) ==
    [id                |-> id,
     celebrity_id      |-> req.celebrity_id,
     person_name       |-> req.person_name,
     role              |-> req.role,
     relationship_type |-> req.relationship_type,
     hop_distance      |-> req.hop_distance,
     contact_info      |-> req.contact_info,
     warm_score        |-> req.warm_score,
     why_warm          |-> req.why_warm]

\* the node added while searches are in flight: a second-hop contact warmer
\* than the cold seed, so that the score and the ranking move when it lands
RacingNodeInputs == {req \in NodeInputs : req.person_name = "Cid"}

\* pre-seeded contents of the nodes table
SeedCold ==
    [i \in 1..2 |->
        NodeRow(i, NodeInput(1, "Gus", Reporter, Media, 2, 0, OldFriend))]

SeedTypes ==
    <<Manager, Investor, Collaborator, Media, Colleague, Partner, Friend>>

SeedRich ==
    [i \in 1..7 |->
        NodeRow(i, NodeInput(1, "Hal", TalentManager, SeedTypes[i], 1, 100,
                             OldFriend))]

\* two direct contacts; the first works in tech, the second is warmer
SeedWarm ==
    <<NodeRow(1, NodeInput(1, "Ivy", TechInvestor, Colleague, 1, 65,
                           OldFriend)),
      NodeRow(2, NodeInput(1, "Jon", Reporter, Collaborator, 1, 75,
                           OldFriend))>>

SeedTables == {<<>>, SeedCold, SeedRich, SeedWarm}

SeedCelebrities ==
    <<[id |-> 1, name |-> ElonMusk, access_score |-> DefaultAccessScore],
      [id |-> 2, name |-> TaylorSwift, access_score |-> DefaultAccessScore]>>

\* celebrity ids of requests; 3 is the id of no seeded celebrity
CelebrityIds == {1, 2, 3}

DefaultUserBackground == "Tech founder from San Francisco"

\* the user_context search_celebrity passes to find_best_path
SearchContext ==
    [industry    |-> Tech,
     connections |-> <<>>,
     background  |-> DefaultUserBackground]

Contexts ==
    { NoContext,
      SearchContext,
      [industry |-> TechUpper, connections |-> <<Yc, Stripe, Yc>>] }

SearchNames == {Elon, Oprah}

NoResponse == [op |-> "none"]

IdleSearch == [pc |-> "idle"]

IdleCall == [pc |-> "idle"]

\* the handlers, other than the search, that call the store more than once
Handlers == {"graph", "generate"}

(***************************************************************************)
(* Initial states: a seeded store, no request in flight.                   *)
(***************************************************************************)
MaxSearches == 2

MaxRacing == 1

Init ==
    /\ nodes \in SeedTables
    /\ celebrities = SeedCelebrities
    /\ searches = [p \in 1..MaxSearches |-> IdleSearch]
    /\ response = NoResponse
    /\ inserted = 0
    /\ outreach = <<>>
    /\ calls = [h \in Handlers |-> IdleCall]

(***************************************************************************)
(* The score write of the calling layer.                                   *)
(***************************************************************************)
\* PersistScore writing every row of the table
PersistScore_everyRow(table, celebrity_id, access_score) ==
    List([i \in DOMAIN table |->
             [table[i] EXCEPT !.access_score = access_score]])

\* db.table("celebrities").update({"access_score": ...}).eq("id", ...)
PersistScore(table, celebrity_id, access_score) ==
    List([i \in DOMAIN table |->
             IF table[i].id = celebrity_id
             THEN [table[i] EXCEPT !.access_score = access_score]
             ELSE table[i]])

(***************************************************************************)
(* POST /celebrity/{celebrity_id}/nodes                                    *)
(***************************************************************************)
\* add_node putting the new row in the place of the last row of the table
add_node_replacing(req) ==
    /\ inserted < MaxNodes
    /\ LET row == NodeRow(Len(nodes) + 1, req)
       IN  /\ nodes' = IF nodes = <<>> THEN <<row>>
                        ELSE SubSeq(nodes, 1, Len(nodes) - 1) \o <<row>>
           /\ response' = [op |-> "add_node", node |-> row,
                           message |-> "Node added successfully"]
    /\ inserted' = inserted + 1
    /\ UNCHANGED <<celebrities, searches, outreach, calls>>

add_node(req) ==
    /\ inserted < MaxNodes
    /\ LET row == NodeRow(Len(nodes) + 1, req)
       IN  /\ nodes' = Append(nodes, row)
           /\ response' = [op |-> "add_node", node |-> row,
                           message |-> "Node added successfully"]
    /\ inserted' = inserted + 1
    /\ UNCHANGED <<celebrities, searches, outreach, calls>>

(***************************************************************************)
(* GET /celebrity/{celebrity_id}/score                                     *)
(***************************************************************************)
\* get_access_score saving the score it computed
get_access_score_persisting(celebrity_id) ==
    /\ response' = [op           |-> "score",
                    rows         |-> ScoreRows(nodes, celebrity_id),
                    celebrity_id |-> celebrity_id,
                    access_score |->
                        calculate_access_score(nodes, celebrity_id)]
    /\ celebrities' =
           PersistScore(celebrities, celebrity_id,
                        calculate_access_score(nodes, celebrity_id))
    /\ UNCHANGED <<nodes, searches, inserted, outreach, calls>>

get_access_score(celebrity_id) ==
    /\ response' = [op           |-> "score",
                    rows         |-> ScoreRows(nodes, celebrity_id),
                    celebrity_id |-> celebrity_id,
                    access_score |->
                        calculate_access_score(nodes, celebrity_id)]
    /\ UNCHANGED <<nodes, celebrities, searches, inserted, outreach, calls>>

(***************************************************************************)
(* GET /celebrity/{celebrity_id}/graph                                     *)
(***************************************************************************)
CelebrityById(celebrity_id) ==
    Filter(celebrities,
            {i \in DOMAIN celebrities :
                celebrities[i].id = celebrity_id})

\* the lookup of the celebrity: .select("name").eq("id", ...).single()
graph_lookup(celebrity_id) ==
    /\ calls["graph"].pc = "idle"
    /\ LET celeb == CelebrityById(celebrity_id)
       IN  IF celeb = <<>>
           THEN /\ response' = [op |-> "graph", status |-> 404]
                /\ calls' = calls
           ELSE /\ calls' = [calls EXCEPT
                                !["graph"] =
                                    [pc           |-> "nodes",
                                     celebrity_id |-> celebrity_id,
                                     name         |-> celeb[1].name]]
                /\ response' = response
    /\ UNCHANGED <<nodes, celebrities, searches, inserted, outreach>>

\* get_graph_data, a later call of the store, and the response
graph_nodes ==
    /\ calls["graph"].pc = "nodes"
    /\ response' =
           [op     |-> "graph",
            status |-> 200,
            rows   |-> NodesOf(nodes, calls["graph"].celebrity_id),
            name   |-> calls["graph"].name,
            graph  |-> get_graph_data(nodes, calls["graph"].celebrity_id,
                                      calls["graph"].name)]
    /\ calls' = [calls EXCEPT !["graph"] = IdleCall]
    /\ UNCHANGED <<nodes, celebrities, searches, inserted, outreach>>

get_celebrity_graph ==
    \/ \E c \in CelebrityIds : graph_lookup(c)
    \/ graph_nodes

(***************************************************************************)
(* A call of find_best_path by itself.                                     *)
(***************************************************************************)
call_find_best_path(celebrity_id, user_context) ==
    /\ response' = [op           |-> "path",
                    rows         |-> PathRows(nodes, celebrity_id),
                    user_context |-> user_context,
                    best_path    |->
                        find_best_path(nodes, celebrity_id, user_context)]
    /\ UNCHANGED <<nodes, celebrities, searches, inserted, outreach, calls>>

(***************************************************************************)
(* The engine by itself: the store grows by add_node and the three         *)
(* functions of the engine are called on it.                               *)
(***************************************************************************)
NextEngine ==
    \/ \E req \in NodeInputs : add_node(req)
    \/ \E c \in CelebrityIds : get_access_score(c)
    \/ get_celebrity_graph
    \/ \E c \in CelebrityIds, ctx \in Contexts : call_find_best_path(c, ctx)

SpecEngine == Init /\ [][NextEngine]_vars

(***************************************************************************)
(* POST /celebrity/search, one action for each call of the store.  The     *)
(* handler is a coroutine without await, so one server process runs it as  *)
(* a whole; the calls of several server processes on the one store         *)
(* interleave, which is what the actions allow.                            *)
(***************************************************************************)
\* SQL LIKE: in the pattern % stands for any run of characters, _ for any
\* one character and a backslash makes the next character stand for
\* itself; the pattern has to cover the text from position j on
RECURSIVE LikeFrom(_, _, _, _)
LikeFrom(pattern, text, i, j) ==
    IF i > Len(pattern) THEN j > Len(text)
    ELSE IF pattern[i] = "%"
    THEN \E k \in j..(Len(text) + 1) : LikeFrom(pattern, text, i + 1, k)
    ELSE IF pattern[i] = "_"
    THEN j <= Len(text) /\ LikeFrom(pattern, text, i + 1, j + 1)
    ELSE IF pattern[i] = "\\" /\ i < Len(pattern)
    THEN /\ j <= Len(text)
         /\ text[j] = pattern[i + 1]
         /\ LikeFrom(pattern, text, i + 2, j + 1)
    ELSE /\ j <= Len(text)
         /\ text[j] = pattern[i]
         /\ LikeFrom(pattern, text, i + 1, j + 1)

Percent == <<"%">>

\* .ilike("name", f"%{name}%"): LIKE without regard to case; the name goes
\* into the pattern as it is, wildcards included
Ilike(value, name) ==
    LikeFrom(Lower(Percent \o name \o Percent), Lower(value), 1, 1)

\* .limit(n): the first n rows; without an order the store returns the
\* rows in insertion order
Limit(rows, n) == SubSeq(rows, 1, Min(n, Len(rows)))

\* db.table("celebrities").select("*").ilike("name", ...).limit(1)
CelebritiesLike(name) ==
    Limit(Filter(celebrities,
                 {i \in DOMAIN celebrities :
                     Ilike(celebrities[i].name, name)}),
          1)

\* the local variables of request p, with new values for some of them
Locals(p, new) == [searches EXCEPT ![p] = new @@ searches[p]]

search_lookup(p, name) ==
    /\ searches[p].pc = "idle"
    /\ LET result == CelebritiesLike(name)
       IN  IF result # <<>>
           THEN searches' = Locals(p, [pc           |-> "score",
                                       name         |-> name,
                                       existing     |-> TRUE,
                                       celebrity    |-> result[1],
                                       celebrity_id |-> result[1].id])
           ELSE searches' = Locals(p, [pc       |-> "insert",
                                       name     |-> name,
                                       existing |-> FALSE])
    /\ UNCHANGED <<nodes, celebrities, response, inserted, outreach, calls>>

\* scrape_all and the insert of the new celebrity
search_insert(p) ==
    /\ searches[p].pc = "insert"
    /\ LET row == [id           |-> Len(celebrities) + 1,
                   name         |-> searches[p].name,
                   access_score |-> DefaultAccessScore]
       IN  /\ celebrities' = Append(celebrities, row)
           /\ searches' = Locals(p, [pc           |-> "score",
                                     celebrity    |-> row,
                                     celebrity_id |-> row.id])
    /\ UNCHANGED <<nodes, response, inserted, outreach, calls>>

\* the insert returns no row: HTTP 500
search_insert_fails(p) ==
    /\ searches[p].pc = "insert"
    /\ searches' = Locals(p, [pc |-> "failed", status |-> 500])
    /\ UNCHANGED <<nodes, celebrities, response, inserted, outreach, calls>>

search_score(p) ==
    /\ searches[p].pc = "score"
    /\ searches' =
           Locals(p, [pc           |-> "persist",
                      access_score |->
                          calculate_access_score(nodes,
                                                 searches[p].celebrity_id)])
    /\ UNCHANGED <<nodes, celebrities, response, inserted, outreach, calls>>

search_persist(p) ==
    /\ searches[p].pc = "persist"
    /\ celebrities' = PersistScore(celebrities, searches[p].celebrity_id,
                                   searches[p].access_score)
    /\ searches' =
           Locals(p, [pc        |-> "path",
                      celebrity |->
                          [searches[p].celebrity EXCEPT
                              !.access_score = searches[p].access_score]])
    /\ UNCHANGED <<nodes, response, inserted, outreach, calls>>

search_path(p) ==
    /\ searches[p].pc = "path"
    /\ searches' =
           Locals(p, [pc        |-> "graph",
                      best_path |->
                          find_best_path(nodes, searches[p].celebrity_id,
                                         SearchContext)])
    /\ UNCHANGED <<nodes, celebrities, response, inserted, outreach, calls>>

\* the graph, the intelligence package (no store access) and the response
search_graph(p) ==
    /\ searches[p].pc = "graph"
    /\ searches' =
           Locals(p, [pc     |-> "done",
                      status |-> 200,
                      graph  |->
                          get_graph_data(nodes, searches[p].celebrity_id,
                                         searches[p].celebrity.name)])
    /\ UNCHANGED <<nodes, celebrities, response, inserted, outreach, calls>>

\* the graph is read and generate_full_intelligence_package raises: no
\* handler catches it, HTTP 500
search_intelligence_fails(p) ==
    /\ searches[p].pc = "graph"
    /\ searches' = Locals(p, [pc |-> "failed", status |-> 500])
    /\ UNCHANGED <<nodes, celebrities, response, inserted, outreach, calls>>

Search(p) ==
    \/ \E name \in SearchNames : search_lookup(p, name)
    \/ search_insert(p)
    \/ search_insert_fails(p)
    \/ search_score(p)
    \/ search_persist(p)
    \/ search_path(p)
    \/ search_graph(p)
    \/ search_intelligence_fails(p)

(***************************************************************************)
(* Searches on a store whose node set does not change.                     *)
(***************************************************************************)
NextSearch == \E p \in 1..MaxSearches : Search(p)

SpecSearch == Init /\ [][NextSearch]_vars

(***************************************************************************)
(* The backend: searches, score requests and node additions on one store.  *)
(***************************************************************************)
Next ==
    \/ \E p \in 1..MaxRacing : Search(p)
    \/ \E req \in RacingNodeInputs : add_node(req)
    \/ \E c \in CelebrityIds : get_access_score(c)

Spec == Init /\ [][Next]_vars

(***************************************************************************)
(* Outreach: routers/outreach.py.  A message is generated for a node of a  *)
(* celebrity and saved as a row of the table "outreach"; its status is     *)
(* updated by id; the dashboard counts the rows by status.                 *)
(***************************************************************************)
MaxOutreach == 3

valid_statuses == <<"draft", "sent", "replied">>

\* statuses of PATCH /outreach/{outreach_id}/status requests
StatusInputs == {"draft", "sent", "replied", "archived"}

\* node ids of POST /outreach/generate requests; 9 is the id of no node
OutreachNodeIds == {1, 9}

\* outreach ids of requests; MaxOutreach + 1 is the id of no row
OutreachIds == 1..(MaxOutreach + 1)

\* the text the language model drafts; the store keeps it as it is
DraftedMessage == "message"

\* x in s for a list s
InList(x, s) == \E i \in DOMAIN s : s[i] = x

\* the response of a generate_message call that got through
Generated(outreach_id, node) ==
    [op          |-> "generate",
     status      |-> 200,
     outreach_id |-> outreach_id,
     message     |-> DraftedMessage,
     target      |-> [person_name  |-> node.person_name,
                      role         |-> node.role,
                      contact_info |-> node.contact_info]]

\* POST /outreach/generate, one action for each call of the store.
\* The lookup of the node: .eq("id", req.node_id).single()
generate_node(req) ==
    /\ calls["generate"].pc = "idle"
    /\ Len(outreach) < MaxOutreach
    /\ LET node_result ==
               Filter(nodes, {i \in DOMAIN nodes : nodes[i].id = req.node_id})
       IN  IF node_result = <<>>
           THEN /\ response' = [op |-> "generate", status |-> 404,
                                detail |-> "Node not found"]
                /\ calls' = calls
           ELSE /\ calls' = [calls EXCEPT
                                !["generate"] =
                                    [pc   |-> "celebrity",
                                     req  |-> req,
                                     node |-> node_result[1]]]
                /\ response' = response
    /\ UNCHANGED <<nodes, celebrities, searches, inserted, outreach>>

\* the lookup of the celebrity
generate_celebrity ==
    /\ calls["generate"].pc = "celebrity"
    /\ LET celeb_result == CelebrityById(calls["generate"].req.celebrity_id)
       IN  IF celeb_result = <<>>
           THEN /\ response' = [op |-> "generate", status |-> 404,
                                detail |-> "Celebrity not found"]
                /\ calls' = [calls EXCEPT !["generate"] = IdleCall]
           ELSE /\ calls' = [calls EXCEPT
                                !["generate"] =
                                    [pc    |-> "insert",
                                     celeb |-> celeb_result[1]]
                                    @@ calls["generate"]]
                /\ response' = response
    /\ UNCHANGED <<nodes, celebrities, searches, inserted, outreach>>

\* generate_leverage or draft_outreach_message raises: no handler catches
\* it, HTTP 500 and no row
generate_draft_fails ==
    /\ calls["generate"].pc = "insert"
    /\ response' = [op |-> "generate", status |-> 500]
    /\ calls' = [calls EXCEPT !["generate"] = IdleCall]
    /\ UNCHANGED <<nodes, celebrities, searches, inserted, outreach>>

\* the two drafts of the language model (no store access), the insert of
\* the row and the response
generate_insert ==
    /\ calls["generate"].pc = "insert"
    /\ Len(outreach) < MaxOutreach
    /\ LET saved == [id           |-> Len(outreach) + 1,
                     celebrity_id |-> calls["generate"].req.celebrity_id,
                     node_id      |-> calls["generate"].req.node_id,
                     message_text |-> DraftedMessage,
                     status       |-> "draft"]
       IN  /\ outreach' = Append(outreach, saved)
           /\ response' = Generated(saved.id, calls["generate"].node)
    /\ calls' = [calls EXCEPT !["generate"] = IdleCall]
    /\ UNCHANGED <<nodes, celebrities, searches, inserted>>

\* the store answers the insert with no row: outreach_id is None
generate_insert_empty ==
    /\ calls["generate"].pc = "insert"
    /\ response' = Generated("None", calls["generate"].node)
    /\ calls' = [calls EXCEPT !["generate"] = IdleCall]
    /\ UNCHANGED <<nodes, celebrities, searches, inserted, outreach>>

generate_message ==
    \/ \E c \in CelebrityIds, n \in OutreachNodeIds :
           generate_node([celebrity_id |-> c, node_id |-> n])
    \/ generate_celebrity
    \/ generate_draft_fails
    \/ generate_insert
    \/ generate_insert_empty

\* db.table("outreach").update({"status": ...}).eq("id", outreach_id)
UpdateStatus(table, outreach_id, status) ==
    List([i \in DOMAIN table |->
             IF table[i].id = outreach_id
             THEN [table[i] EXCEPT !.status = status]
             ELSE table[i]])

\* update_status without the check of the requested status
update_status_unvalidated(outreach_id, req) ==
    /\ LET updated == UpdateStatus(outreach, outreach_id, req.status)
           result  ==
               Filter(updated,
                      {i \in DOMAIN updated : updated[i].id = outreach_id})
       IN  /\ outreach' = updated
           /\ IF result = <<>>
              THEN response' = [op |-> "update", status |-> 404,
                                outreach_id |-> outreach_id, req |-> req]
              ELSE response' = [op |-> "update", status |-> 200,
                                outreach_id |-> outreach_id, req |-> req,
                                outreach |-> result[1]]
    /\ UNCHANGED <<nodes, celebrities, searches, inserted, calls>>

\* PATCH /outreach/{outreach_id}/status
update_status(outreach_id, req) ==
    /\ IF ~InList(req.status, valid_statuses)
       THEN /\ response' = [op |-> "update", status |-> 400,
                            outreach_id |-> outreach_id, req |-> req]
            /\ outreach' = outreach
       ELSE LET updated == UpdateStatus(outreach, outreach_id, req.status)
                result  ==
                    Filter(updated,
                           {i \in DOMAIN updated :
                               updated[i].id = outreach_id})
            IN  /\ outreach' = updated
                /\ IF result = <<>>
                   THEN response' = [op |-> "update", status |-> 404,
                                     outreach_id |-> outreach_id,
                                     req |-> req]
                   ELSE response' = [op |-> "update", status |-> 200,
                                     outreach_id |-> outreach_id,
                                     req |-> req,
                                     outreach |-> result[1]]
    /\ UNCHANGED <<nodes, celebrities, searches, inserted, calls>>

\* round(x, 1) for a non-negative float x, as a number of tenths: the
\* decimal with one digit after the point nearest to x, ties to even
RoundTenths(x) ==
    LET t == MulLimb(x.m, 10)
    IN  IF x.e >= 0 THEN BigToNat(ShiftLeft(t, x.e))
        ELSE LET s  == -x.e
                 q  == ShiftRight(t, s)
                 g  == BitAt(t, s - 1)
                 st == LowBitsSet(t, s - 1)
                 up == g = 1 /\ (st \/ BitAt(q, 0) = 1)
             IN  BigToNat(q) + (IF up THEN 1 ELSE 0)

\* the keys of the stats dict that the loop of get_outreach_stats counts
StatsKeys == {"draft", "sent", "replied", "total"}

\* the rows of the table whose status is the key
CountStatus(table, key) ==
    Cardinality({i \in DOMAIN table : table[i].status = key})

\* the body of get_outreach_stats once the rows are read; the rate is in
\* tenths of a percent
StatsOf(all_messages) ==
    LET stats ==
            [key \in StatsKeys |->
                (IF key = "total" THEN Len(all_messages) ELSE 0)
              + CountStatus(all_messages, key)]
        reply_rate ==
            IF stats["sent"] > 0
            THEN RoundTenths(FloatMul(TrueDiv(stats["replied"],
                                              stats["sent"]),
                                      FromInt(100)))
            ELSE 0
    IN  [draft              |-> stats["draft"],
         sent               |-> stats["sent"],
         replied            |-> stats["replied"],
         total              |-> stats["total"],
         reply_rate_percent |-> reply_rate]

\* GET /outreach/stats
get_outreach_stats ==
    /\ response' = [op |-> "stats", status |-> 200,
                    stats |-> StatsOf(outreach)]
    /\ UNCHANGED <<nodes, celebrities, searches, inserted, outreach, calls>>

NextOutreach ==
    \/ generate_message
    \/ \E id \in OutreachIds, status \in StatusInputs :
           update_status(id, [status |-> status])
    \/ get_outreach_stats

SpecOutreach == Init /\ [][NextOutreach]_vars

(***************************************************************************)
(* Properties of the scoring engine.                                       *)
(***************************************************************************)
ScoreResponse == response.op = "score"

\* C1: the access score of every node set (warm_score in 0..100,
\* hop_distance >= 1) is an integer in [10,99], and the access score of
\* the empty node set is exactly 30.
C1_ScoreInRange ==
    ScoreResponse =>
        /\ response.access_score \in 10..99
        /\ response.rows = <<>> => response.access_score = 30

\* C1 witness: a score was computed for a non-empty node set and the upper
\* clamp decided it.
C1_Witness ==
    /\ ScoreResponse
    /\ response.rows # <<>>
    /\ response.access_score = 99

\* floor(mean(warm_score) * 0.6) in exact arithmetic: floor(3 * sum / (5 * n))
ExactBase(rows) ==
    (3 * SumOf(List([i \in DOMAIN rows |-> rows[i].warm_score])))
        \div (5 * Len(rows))

ExactScore(rows) ==
      ExactBase(rows)
    + Min(5 * Cardinality({i \in DOMAIN rows : rows[i].hop_distance = 1}), 20)
    + 3 * Cardinality({rows[i].relationship_type : i \in DOMAIN rows})

\* C2: for every non-empty node set the access score equals
\* floor(mean(warm_score) * 0.6 + min(5 * count(hop_distance == 1), 20)
\* + 3 * count(distinct relationship_type)) clamped to [10,99].
C2_ExactFormula ==
    ScoreResponse /\ response.rows # <<>> =>
        response.access_score = Min(Max(ExactScore(response.rows), 10), 99)

\* the warm scores a node's warm_score is raised to: one more, the warm
\* scores of the other nodes and the maximum
RaiseTargets(rows, i) ==
    {w \in {rows[j].warm_score : j \in DOMAIN rows}
           \cup {rows[i].warm_score + 1, 100} :
        w > rows[i].warm_score /\ w <= 100}

\* C3: raising the warm_score of one node of a non-empty node set, every
\* other node and field being the same, never lowers the access score.
C3_Monotone ==
    ScoreResponse /\ response.rows # <<>> =>
        \A i \in DOMAIN response.rows :
            \A w \in RaiseTargets(response.rows, i) :
                AccessScoreOf([response.rows EXCEPT ![i].warm_score = w])
                    >= response.access_score

\* C3 witness: a score was computed for a node set in which raising one
\* warm_score raises the score.
C3_Witness ==
    /\ ScoreResponse
    /\ \E i \in DOMAIN response.rows :
           \E w \in RaiseTargets(response.rows, i) :
               AccessScoreOf([response.rows EXCEPT ![i].warm_score = w])
                   > response.access_score

(***************************************************************************)
(* Properties of the path selector.                                        *)
(***************************************************************************)
PathResponse == response.op = "path"

RowById(rows, id) == rows[CHOOSE i \in DOMAIN rows : rows[i].id = id]

\* C4: in the ranking of find_best_path every node with hop_distance == 1
\* comes before every node with hop_distance > 1, within each of the two
\* groups the nodes are in descending final_score order, and the ranking
\* is the order of all_nodes and decides the entry point.
C4_DirectFirstRanking ==
    PathResponse /\ response.rows # <<>> =>
        LET all_nodes == response.best_path.all_nodes
            final(i)  == FinalScore(RowById(response.rows,
                                            all_nodes[i].node_id),
                                    response.user_context)
            direct(i) == all_nodes[i].hop_distance = 1
        IN  /\ \A i, j \in DOMAIN all_nodes :
                   i < j =>
                       /\ direct(j) => direct(i)
                       /\ direct(i) = direct(j) => final(i) >= final(j)
            /\ response.best_path.entry_point.node_id = all_nodes[1].node_id

\* C5: when the node set holds a node with hop_distance == 1, the entry
\* point of the returned path has hop_distance == 1 or the path has
\* exactly one node.
C5_DirectEntryPoint ==
    PathResponse
    /\ (\E i \in DOMAIN response.rows : response.rows[i].hop_distance = 1)
    => \/ response.best_path.entry_point.hop = 1
       \/ Len(response.best_path.path) = 1

EmptyPath == [path |-> <<>>, total_hops |-> 0, path_score |-> 0]

\* C6: the returned path is empty exactly when the target has no nodes;
\* with no nodes the result is {path: [], total_hops: 0, path_score: 0}.
C6_PathEmptyIffNoNodes ==
    PathResponse =>
        /\ response.best_path.path = <<>> <=> response.rows = <<>>
        /\ response.rows = <<>> => response.best_path = EmptyPath

\* C6 witness: a path was selected for a target that has only nodes with
\* hop_distance > 1.
C6_Witness ==
    /\ PathResponse
    /\ response.rows # <<>>
    /\ \A i \in DOMAIN response.rows : response.rows[i].hop_distance > 1
    /\ Len(response.best_path.path) = 1

(***************************************************************************)
(* Properties of the graph projector.                                      *)
(***************************************************************************)
GraphResponse == response.op = "graph" /\ response.status = 200

\* C8: the graph has len(nodes) + 1 visual nodes and len(nodes) edges;
\* exactly one visual node is the target, with the reserved id; every
\* input node is the source of exactly one edge and every edge points to
\* the target; for no nodes the graph is the target alone, without edges.
C8_GraphShape ==
    GraphResponse =>
        LET g    == response.graph
            rows == response.rows
        IN  /\ Len(g.nodes) = Len(rows) + 1
            /\ Len(g.edges) = Len(rows)
            /\ Cardinality({i \in DOMAIN g.nodes :
                               g.nodes[i].id = CelebrityNodeId}) = 1
            /\ \A i \in DOMAIN rows :
                   Cardinality({e \in DOMAIN g.edges :
                                   g.edges[e].from = Str(rows[i].id)}) = 1
            /\ \A e \in DOMAIN g.edges : g.edges[e].to = CelebrityNodeId
            /\ rows = <<>> =>
                   /\ g.nodes = <<CelebrityVisNode(response.name)>>
                   /\ g.edges = <<>>

\* C8 witness: a graph was projected from a node set that mixes direct and
\* indirect nodes.
C8_Witness ==
    /\ GraphResponse
    /\ \E i, j \in DOMAIN response.rows :
           /\ response.rows[i].hop_distance = 1
           /\ response.rows[j].hop_distance > 1

(***************************************************************************)
(* Properties of the calling layer.                                        *)
(***************************************************************************)
SearchStep(p) == searches'[p] # searches[p]

\* the celebrities table changes at most in the access_score of one target
OnlyScoreWritten(celebrity_id) ==
    /\ Len(celebrities') = Len(celebrities)
    /\ \A i \in DOMAIN celebrities :
           \/ celebrities'[i] = celebrities[i]
           \/ /\ celebrities[i].id = celebrity_id
              /\ celebrities'[i] =
                     [celebrities[i] EXCEPT
                         !.access_score = celebrities'[i].access_score]

\* C9: the engine is read-only: the steps of a search that call
\* calculate_access_score, find_best_path and get_graph_data leave both
\* tables as they are; a search for an existing target never changes the
\* nodes and writes nothing but the access_score of its target; GET
\* /{id}/score computes the score and writes nothing.
C9_EngineReadOnly ==
    [][ /\ \A p \in 1..MaxRacing :
               SearchStep(p) =>
                   /\ searches[p].pc \in {"score", "path", "graph"} =>
                          nodes' = nodes /\ celebrities' = celebrities
                   /\ searches'[p].existing =>
                          /\ nodes' = nodes
                          /\ OnlyScoreWritten(searches'[p].celebrity_id)
        /\ (response' # response /\ response'.op = "score") =>
               nodes' = nodes /\ celebrities' = celebrities
      ]_vars

\* C9 witness: a search for an existing target with nodes has returned,
\* its score is the persisted one and differs from the one the table held,
\* and a score request has been answered.
C9_Witness ==
    /\ searches[1].pc = "done"
    /\ searches[1].existing
    /\ NodesOf(nodes, searches[1].celebrity_id) # <<>>
    /\ CelebrityById(searches[1].celebrity_id)[1].access_score
           = searches[1].access_score
    /\ searches[1].access_score # DefaultAccessScore
    /\ response.op = "score"

InFlight(p) == searches[p].pc \notin {"idle", "done", "failed"}

\* C10: with a node set that does not change, under every interleaving of
\* the store calls of concurrent searches, a search returns the score and
\* the path it returns when run alone, and once no search is in flight the
\* persisted access_score of every searched target is the score of its
\* node set.
C10_ConcurrentSearchesAgree ==
    /\ \A p \in 1..MaxSearches :
           searches[p].pc = "done" =>
               /\ searches[p].access_score =
                      calculate_access_score(nodes, searches[p].celebrity_id)
               /\ searches[p].best_path =
                      find_best_path(nodes, searches[p].celebrity_id,
                                     SearchContext)
    /\ (\A p \in 1..MaxSearches : ~InFlight(p)) =>
           \A p \in 1..MaxSearches :
               searches[p].pc = "done" =>
                   CelebrityById(searches[p].celebrity_id)[1].access_score
                       = calculate_access_score(nodes,
                                                searches[p].celebrity_id)

\* C10 witness: two searches for the same target, which has nodes, have
\* both returned.
C10_Witness ==
    /\ searches[1].pc = "done"
    /\ searches[2].pc = "done"
    /\ searches[1].celebrity_id = searches[2].celebrity_id
    /\ NodesOf(nodes, searches[1].celebrity_id) # <<>>

(***************************************************************************)
(* Properties of searches racing with node additions.                      *)
(***************************************************************************)
\* no node can be added any more and no search is in flight
Quiescent ==
    /\ inserted = MaxNodes
    /\ \A p \in 1..MaxSearches : ~InFlight(p)

\* search p has returned, and the graph it read last shows every node its
\* target has now: it was still running when the last node was added
CompletedAfterLastAdd(p) ==
    /\ searches[p].pc = "done"
    /\ Len(searches[p].graph.nodes)
           = Len(NodesOf(nodes, searches[p].celebrity_id)) + 1

\* C11: access_score is eventually consistent: once the node set has
\* stopped changing and every search in flight has completed, the
\* persisted access_score of a target whose search completed after the
\* last addition equals the score computed from the final node set.
C11_EventuallyConsistent ==
    Quiescent =>
        \A p \in 1..MaxSearches :
            CompletedAfterLastAdd(p) =>
                CelebrityById(searches[p].celebrity_id)[1].access_score
                    = calculate_access_score(nodes, searches[p].celebrity_id)

(***************************************************************************)
(* Properties of the path built from the ranking.                          *)
(***************************************************************************)
\* the ranked nodes of the answered find_best_path call
RankedNodes == Ranking(response.rows, response.user_context)

\* the positions of the ranking that hold a direct node
DirectRanks ==
    LET ranked == RankedNodes
    IN  {i \in DOMAIN ranked : ranked[i].node.hop_distance = 1}

\* C12: the path has one or two elements and its first element is the
\* top-ranked node; a second element exists exactly when the entry node has
\* hop_distance > 1 and some node with hop_distance == 1 exists, and it is
\* then the highest-ranked node with hop_distance == 1; without a 1-hop
\* node the path is the entry node alone.
C12_BridgePolicy ==
    PathResponse /\ response.rows # <<>> =>
        LET path   == response.best_path.path
            ranked == RankedNodes
            direct == DirectRanks
        IN  /\ Len(path) \in {1, 2}
            /\ path[1] = PathEntry(ranked[1].node)
            /\ Len(path) = 2 <=> path[1].hop > 1 /\ direct # {}
            /\ Len(path) = 2 =>
                   \E i \in direct :
                       /\ path[2] = PathEntry(ranked[i].node)
                       /\ \A j \in direct : i <= j
            /\ direct = {} => path = <<PathEntry(ranked[1].node)>>

\* C12 witness: a path of two elements was built from a node set with two
\* direct nodes, and the bridge is the one inserted last.
C12_Witness ==
    /\ PathResponse
    /\ Len(response.best_path.path) = 2
    /\ Cardinality(DirectRanks) >= 2
    /\ \E i \in DOMAIN response.rows :
           /\ response.rows[i].hop_distance = 1
           /\ response.rows[i].id < response.best_path.path[2].node_id

\* C13: for every non-empty node set, total_hops is the maximum
\* hop_distance among the nodes of the returned path plus 1; a path of one
\* 1-hop node gives total_hops = 2.
C13_TotalHops ==
    PathResponse /\ response.rows # <<>> =>
        LET path       == response.best_path.path
            total_hops == response.best_path.total_hops
        IN  /\ \A i \in DOMAIN path : path[i].hop + 1 <= total_hops
            /\ \E i \in DOMAIN path : path[i].hop + 1 = total_hops
            /\ (Len(path) = 1 /\ path[1].hop = 1) => total_hops = 2

\* C13 witness: the path is a second-hop entry node bridged by a direct
\* node, three hops in all.
C13_Witness ==
    /\ PathResponse
    /\ Len(response.best_path.path) = 2
    /\ response.best_path.path[1].hop = 2
    /\ response.best_path.path[2].hop = 1
    /\ response.best_path.total_hops = 3

\* the stored warm_score of the node a path or all_nodes element names
StoredWarm(element) == RowById(response.rows, element.node_id).warm_score

\* the boost the context of the answered call gives to that node
Boost(element) ==
      FinalScore(RowById(response.rows, element.node_id),
                 response.user_context)
    - StoredWarm(element)

\* C14: for every non-empty node set and any context, path_score is the
\* floor of the mean of the stored warm_score of the path nodes; the
\* context boosts change the ranking only: the warm_score reported in path
\* and in all_nodes is the stored one, and the path_score of a path is the
\* one the same path has without context.
C14_PathScore ==
    PathResponse /\ response.rows # <<>> =>
        LET best_path == response.best_path
            path      == best_path.path
            plain     == BestPathOf(response.rows, NoContext)
        IN  /\ best_path.path_score =
                   SumOf(List([i \in DOMAIN path |-> StoredWarm(path[i])]))
                       \div Len(path)
            /\ \A i \in DOMAIN path : path[i].warm_score = StoredWarm(path[i])
            /\ \A i \in DOMAIN best_path.all_nodes :
                   best_path.all_nodes[i].warm_score
                       = StoredWarm(best_path.all_nodes[i])
            /\ plain.path = path => plain.path_score = best_path.path_score

\* C14 witness: the context boosted the entry node, the path has two nodes
\* and the mean of their warm scores is not an integer.
C14_Witness ==
    /\ PathResponse
    /\ Len(response.best_path.path) = 2
    /\ Boost(response.best_path.path[1]) > 0
    /\ (  response.best_path.path[1].warm_score
        + response.best_path.path[2].warm_score) % 2 = 1

\* C15: for every non-empty node set of size n, all_nodes is the first
\* min(8, n) nodes of the ranking, in ranking order, whichever nodes were
\* chosen for the path, and entry_point is the first element of path.
C15_AllNodesTopEight ==
    PathResponse /\ response.rows # <<>> =>
        LET best_path == response.best_path
            n         == Len(response.rows)
            ranked    == RankedNodes
        IN  /\ Len(best_path.all_nodes) = (IF n < 8 THEN n ELSE 8)
            /\ \A i \in DOMAIN best_path.all_nodes :
                   best_path.all_nodes[i] = NodeSummary(ranked[i].node)
            /\ best_path.entry_point = best_path.path[1]

\* C15 witness: the node set has more than eight nodes, and the context
\* boost brought a node into all_nodes ahead of a warmer node that is left
\* out.
C15_Witness ==
    /\ PathResponse
    /\ Len(response.rows) > 8
    /\ Len(response.best_path.all_nodes) = 8
    /\ \E i \in DOMAIN response.rows :
           /\ \A k \in DOMAIN response.best_path.all_nodes :
                  response.best_path.all_nodes[k].node_id
                      # response.rows[i].id
           /\ response.rows[i].warm_score
                  > response.best_path.all_nodes[8].warm_score

(***************************************************************************)
(* Properties of the ranking score.                                        *)
(***************************************************************************)
\* the text of a node that a context is matched against
TextOf(node) ==
    Lower(node.role) \o Space \o Lower(node.why_warm) \o Space
        \o Lower(node.relationship_type)

\* the context names an industry and the text of the node contains it
IndustryMatches(node, user_context) ==
    /\ "industry" \in DOMAIN user_context
    /\ user_context.industry # <<>>
    /\ In(Lower(user_context.industry), TextOf(node))

\* the entries of context.connections the text of the node contains
MatchingConnections(node, user_context) ==
    IF "connections" \in DOMAIN user_context
    THEN {i \in DOMAIN user_context.connections :
             In(Lower(user_context.connections[i]), TextOf(node))}
    ELSE {}

\* warm_score + 15 for the industry + 10 for each matching connection
BoostedScore(node, user_context) ==
      node.warm_score
    + (IF IndustryMatches(node, user_context) THEN 15 ELSE 0)
    + 10 * Cardinality(MatchingConnections(node, user_context))

\* that score for each row of the answered call
BoostedScores ==
    List([i \in DOMAIN response.rows |->
             BoostedScore(response.rows[i], response.user_context)])

\* the place of each row of the answered call in the ranking
Ranks ==
    LET ranked == RankedNodes
    IN  List([i \in DOMAIN response.rows |->
                 CHOOSE k \in DOMAIN ranked :
                     ranked[k].node.id = response.rows[i].id])

SameHopClass(a, b) == (a.hop_distance = 1) = (b.hop_distance = 1)

\* C16: the ranking score of a node is warm_score + 15 if the industry of
\* the context matches the text of the node (role, why_warm,
\* relationship_type) + 10 for each entry of context.connections that
\* matches it, counted per entry, and warm_score without context; nodes of
\* one hop class are ranked by it, so that a matching industry moves a node
\* ahead of an unmatched node whose warm_score is up to 14 higher.
C16_FinalScore ==
    PathResponse /\ response.rows # <<>> =>
        LET rows    == response.rows
            ctx     == response.user_context
            ranked  == RankedNodes
            rank    == Ranks
            boosted == BoostedScores
        IN  /\ \A i \in DOMAIN rows :
                   /\ ranked[rank[i]].final_score = boosted[i]
                   /\ ctx = NoContext =>
                          ranked[rank[i]].final_score = rows[i].warm_score
            /\ \A i, j \in DOMAIN rows :
                   /\ SameHopClass(rows[i], rows[j])
                   /\ boosted[i] > boosted[j]
                   => rank[i] < rank[j]
            /\ \A i, j \in DOMAIN rows :
                   /\ SameHopClass(rows[i], rows[j])
                   /\ boosted[j] = rows[j].warm_score
                   /\ rows[j].warm_score - rows[i].warm_score \in 0..14
                   /\ IndustryMatches(rows[i], ctx)
                   => rank[i] < rank[j]

\* C16 witness: under a context a node matched by the industry and by a
\* connection listed twice is ranked, and a node matched by the industry
\* alone is ahead of an unmatched node of its hop class that is warmer.
C16_Witness ==
    /\ PathResponse
    /\ \E i \in DOMAIN response.rows :
           /\ IndustryMatches(response.rows[i], response.user_context)
           /\ Cardinality(MatchingConnections(response.rows[i],
                                              response.user_context)) = 2
    /\ \E i, j \in DOMAIN response.rows :
           /\ SameHopClass(response.rows[i], response.rows[j])
           /\ IndustryMatches(response.rows[i], response.user_context)
           /\ MatchingConnections(response.rows[i],
                                  response.user_context) = {}
           /\ BoostedScores[j] = response.rows[j].warm_score
           /\ response.rows[j].warm_score > response.rows[i].warm_score
           /\ Ranks[i] < Ranks[j]

\* the place of the node of id node_id in all_nodes, 0 when it is left out
PlaceInAllNodes(node_id) ==
    LET all_nodes == response.best_path.all_nodes
    IN  IF \E k \in DOMAIN all_nodes : all_nodes[k].node_id = node_id
        THEN CHOOSE k \in DOMAIN all_nodes : all_nodes[k].node_id = node_id
        ELSE 0

\* C17: two nodes that tie exactly on the rank key (same hop-1 class and
\* same ranking score) appear in the ranking, and so in all_nodes and in
\* the choice of entry point and bridge, in the same relative order as in
\* the node sequence read from the store.
C17_StableTieBreak ==
    PathResponse /\ response.rows # <<>> =>
        LET rows    == response.rows
            path    == response.best_path.path
            rank    == Ranks
            boosted == BoostedScores
        IN  \A i, j \in DOMAIN rows :
                /\ i < j
                /\ SameHopClass(rows[i], rows[j])
                /\ boosted[i] = boosted[j]
                => /\ rank[i] < rank[j]
                   /\ PlaceInAllNodes(rows[j].id) # 0 =>
                          /\ PlaceInAllNodes(rows[i].id) # 0
                          /\ PlaceInAllNodes(rows[i].id)
                                 < PlaceInAllNodes(rows[j].id)
                   /\ \A k \in DOMAIN path : path[k].node_id # rows[j].id

\* C17 witness: two nodes of different warm_score tie on the rank key
\* under the context, and the one read first from the store, which was
\* inserted last, is the entry point.
C17_Witness ==
    /\ PathResponse
    /\ \E i, j \in DOMAIN response.rows :
           /\ i < j
           /\ SameHopClass(response.rows[i], response.rows[j])
           /\ BoostedScores[i] = BoostedScores[j]
           /\ response.rows[i].warm_score > response.rows[j].warm_score
           /\ response.rows[i].id > response.rows[j].id
           /\ response.best_path.entry_point.node_id = response.rows[i].id

(***************************************************************************)
(* Properties of the outreach store.                                       *)
(***************************************************************************)
\* the steps of the lifecycle draft -> sent -> replied
Advances == {<<"draft", "sent">>, <<"sent", "replied">>}

\* C18: a record created by generate_message starts as draft, and its
\* status only advances along draft -> sent -> replied under update_status:
\* it never moves backward and never skips from draft to replied.
C18_StatusLifecycle ==
    [][ \A i \in DOMAIN outreach' :
            IF i \in DOMAIN outreach
            THEN \/ outreach'[i].status = outreach[i].status
                 \/ <<outreach[i].status, outreach'[i].status>> \in Advances
            ELSE outreach'[i].status = "draft"
      ]_vars

\* the statuses a record may have
StatusSet == {"draft", "sent", "replied"}

\* the table holds a row of this id
KnownOutreach(table, outreach_id) ==
    \E i \in DOMAIN table : table[i].id = outreach_id

\* C19: every stored status is one of draft, sent, replied, so that
\* get_outreach_stats reports draft + sent + replied = total; an
\* update_status call with any other status is answered with HTTP 400 and
\* leaves the table as it is, and an update for an unknown outreach id is
\* answered with 404 and changes nothing.
C19_StatusesValid ==
    [][ /\ \A i \in DOMAIN outreach' : outreach'[i].status \in StatusSet
        /\ response'.op = "stats" =>
               /\ response'.stats.total = Len(outreach')
               /\   response'.stats.draft + response'.stats.sent
                  + response'.stats.replied = response'.stats.total
        /\ response'.op = "update" =>
               /\ response'.status = 400
                      <=> response'.req.status \notin StatusSet
               /\ response'.status = 404
                      <=> /\ response'.req.status \in StatusSet
                          /\ ~KnownOutreach(outreach, response'.outreach_id)
               /\ response'.status \in {400, 404} => outreach' = outreach
      ]_vars

\* C19 witness: an update with a status that is none of the three was
\* rejected for a record that had been sent, and the record is still sent.
C19_Witness ==
    /\ response.op = "update"
    /\ response.status = 400
    /\ \E i \in DOMAIN outreach :
           /\ outreach[i].id = response.outreach_id
           /\ outreach[i].status = "sent"

\* C20: get_outreach_stats reports a reply rate between 0 and 100 percent:
\* the number of records with status replied never exceeds the number
\* counted as sent, and the rate is 0 when no record is sent.  The rate of
\* the model is in tenths of a percent.
C20_ReplyRateInRange ==
    response.op = "stats" =>
        /\ response.stats.reply_rate_percent \in 0..1000
        /\ response.stats.replied <= response.stats.sent
        /\ response.stats.sent = 0 => response.stats.reply_rate_percent = 0

(***************************************************************************)
(* Properties of one search response.                                      *)
(***************************************************************************)
\* the graph of the response of search p has a visual node for the node
InGraph(p, node_id) ==
    \E k \in DOMAIN searches[p].graph.nodes :
        searches[p].graph.nodes[k].id = Str(node_id)

\* C21: within one search response every node of best_path.path and of
\* best_path.all_nodes is also a visual node of graph, under every
\* interleaving with add_node calls for the same target: the path is read
\* before the graph and nodes are only added.
C21_PathNodesInGraph ==
    \A p \in 1..MaxRacing :
        searches[p].pc = "done" =>
            LET best_path == searches[p].best_path
            IN  /\ \A i \in DOMAIN best_path.path :
                       InGraph(p, best_path.path[i].node_id)
                /\ best_path.path # <<>> =>
                       \A i \in DOMAIN best_path.all_nodes :
                           InGraph(p, best_path.all_nodes[i].node_id)

\* C21 witness: a search has returned a path, and its graph shows a node
\* that was added after the path was read.
C21_Witness ==
    \E p \in 1..MaxRacing :
        /\ searches[p].pc = "done"
        /\ searches[p].best_path.path # <<>>
        /\ Len(searches[p].best_path.all_nodes) < AllNodesLimit
        /\ Len(searches[p].graph.nodes)
               > Len(searches[p].best_path.all_nodes) + 1

=============================================================================
